---- MODULE Spec2Model ----
(***************************************************************************)
(* State-machine model of cache_cache (src/src/lib.rs): Cache, Entry,      *)
(* VacantEntry and Entries.                                                *)
(*                                                                         *)
(* The system clock is the variable `now`.  Every call of                  *)
(* SystemTime::now() / SystemTime::elapsed() in the source is a clock read *)
(* of its own, so an operation that reads the clock several times (or that *)
(* runs a caller-supplied producer) is split at those points and Tick may  *)
(* advance the clock in between.  Option<T> is a sequence of length 0      *)
(* (None) or 1 (Some(x)).                                                  *)
(***************************************************************************)
EXTENDS Integers, Sequences, FiniteSets

\* ---- bounds of the model
NumKeys == 2
NumValues == 2
MaxLen == 2
MaxTime == 2
MaxExpiry == 1

Keys == 1..NumKeys
Values == 1..NumValues
KeySeqs == UNION {[1..m -> Keys] : m \in 0..MaxLen}
Vecs(n) == UNION {[1..m -> Values] : m \in 0..n}

None == <<>>
Some(x) == <<x>>

VARIABLES
    hash_map,         \* Cache.hash_map: Keys -> Option<[v, t]>
    expiry_duration,  \* Cache.expiry_duration: Option<Duration>
    now,              \* the system clock
    pc,               \* position of the operation in progress
    op,               \* the operation in progress, or the last one finished
    keys,             \* Entries.keys, or <<k>> for Entry
    idx,              \* loop index of the running for loop
    values,           \* local `values` of Entries::or_try_insert_with
    missing,          \* local `missing` of Entries::or_try_insert_with
    pending,          \* value(s) about to be inserted (missing_values / default)
    calls,            \* arguments of the producer invocations of this call
    ret,              \* what the operation returned
    produced,         \* what the producer returned to this call
    pre,              \* hash_map when the operation was called
    checked,          \* clock value of each freshness check of this call
    vec,              \* local `values` (a Vec) of Entries::or_insert
    history           \* per key, the last insert made (value, clock) with
                      \* the later writes through a reference applied

vars == <<hash_map, expiry_duration, now, pc, op, keys, idx, values, missing,
          pending, calls, ret, produced, pre, checked, vec, history>>

\* ---- Cache

\* has_expired with >= for >: a value expires one instant early
has_expired_early(expiry, t) ==
    IF expiry = None THEN FALSE ELSE (now - t) >= expiry[1]

\* Cache::has_expired: t.elapsed() > expiry, never with keep_last
has_expired(expiry, t) ==
    IF expiry = None THEN FALSE ELSE (now - t) > expiry[1]

\* the lookup answers with whatever the map holds, expired or not
get_any_age(k) ==
    IF hash_map[k] = None THEN None ELSE Some(hash_map[k][1].v)

\* Cache::get: the value if present and not expired
get(k) ==
    IF hash_map[k] = None THEN None
    ELSE IF has_expired(expiry_duration, hash_map[k][1].t) THEN None
         ELSE Some(hash_map[k][1].v)

\* Cache::get_mut: same rule as get, on the mutable map
get_mut(k) ==
    IF hash_map[k] = None THEN None
    ELSE IF has_expired(expiry_duration, hash_map[k][1].t) THEN None
         ELSE Some(hash_map[k][1].v)

\* an overwrite keeps the timestamp of the entry it replaces
inserted_keeps_stamp(m, k, v) ==
    [m EXCEPT ![k] = Some([v |-> v,
                           t |-> IF m[k] = None THEN now ELSE m[k][1].t])]

\* HashMap::insert(k, (v, SystemTime::now())) as done by Cache::insert
inserted(m, k, v) == [m EXCEPT ![k] = Some([v |-> v, t |-> now])]

\* the old value is handed back only while it has not expired
previous_if_fresh(m, k) ==
    IF m[k] = None THEN None
    ELSE IF has_expired(expiry_duration, m[k][1].t) THEN None
         ELSE Some(m[k][1].v)

\* the Option<V> Cache::insert returns: the old value, expired or not
previous(m, k) == IF m[k] = None THEN None ELSE Some(m[k][1].v)

\* the record of an insert of v under k made now
recorded(h, k, v) == [h EXCEPT ![k] = Some([v |-> v, t |-> now])]

\* the record of a write of v through a reference to the value of k
rewritten(h, k, v) == [h EXCEPT ![k] = Some([v |-> v, t |-> @[1].t])]

NoRet == [kind |-> "none", val |-> <<>>]
Ok(s) == [kind |-> "ok", val |-> s]
Err == [kind |-> "err", val |-> <<>>]
Panic == [kind |-> "panic", val |-> <<>>]

NoValues == [k \in Keys |-> None]

Init ==
    /\ hash_map = [k \in Keys |-> None]
    /\ expiry_duration \in {None} \cup {Some(d) : d \in 0..MaxExpiry}
    /\ now = 0
    /\ pc = "idle"
    /\ op = "new"
    /\ keys = <<>>
    /\ idx = 0
    /\ values = NoValues
    /\ missing = <<>>
    /\ pending = <<>>
    /\ calls = <<>>
    /\ ret = NoRet
    /\ produced = NoRet
    /\ pre = hash_map
    /\ checked = <<>>
    /\ vec = <<>>
    /\ history = [k \in Keys |-> None]

\* the clock advances, at any point of any operation; a panic ends the run,
\* and a loop exit reads no clock: the producer call or the return follows
\* the last iteration at once
Tick ==
    /\ pc # "panicked"
    /\ ~(pc = "partition" /\ idx > Len(keys))
    /\ ~(pc = "insert_all" /\ idx > Len(missing))
    /\ ~(pc = "or_insert" /\ idx > Len(keys))
    /\ now < MaxTime
    /\ now' = now + 1
    /\ UNCHANGED <<hash_map, expiry_duration, pc, op, keys, idx, values,
                   missing, pending, calls, ret, produced, pre, checked, vec,
                   history>>

\* a new call starts: its locals are fresh
Begin(name, ks) ==
    /\ pc = "idle"
    /\ op' = name
    /\ keys' = ks
    /\ pre' = hash_map
    /\ values' = NoValues
    /\ missing' = <<>>
    /\ produced' = NoRet
    /\ vec' = <<>>

\* Cache::insert
Insert ==
    \E k \in Keys, v \in Values :
        /\ Begin("insert", <<k>>)
        /\ hash_map' = inserted(hash_map, k, v)
        /\ history' = recorded(history, k, v)
        /\ ret' = Ok(previous(hash_map, k))
        /\ pending' = <<v>>
        /\ calls' = <<>>
        /\ checked' = <<>>
        /\ idx' = 0
        /\ UNCHANGED <<expiry_duration, now, pc>>

\* Cache::get
Get ==
    \E k \in Keys :
        /\ Begin("get", <<k>>)
        /\ ret' = Ok(get(k))
        /\ pending' = <<>>
        /\ calls' = <<>>
        /\ checked' = <<now>>
        /\ idx' = 0
        /\ UNCHANGED <<hash_map, expiry_duration, now, pc, history>>

\* Index::index: self.get(index).expect("no entry found for key")
Index ==
    \E k \in Keys :
        /\ Begin("index", <<k>>)
        /\ IF get(k) = None
             THEN /\ ret' = Panic
                  /\ pc' = "panicked"
             ELSE /\ ret' = Ok(get(k))
                  /\ UNCHANGED pc
        /\ pending' = <<>>
        /\ calls' = <<>>
        /\ checked' = <<now>>
        /\ idx' = 0
        /\ UNCHANGED <<hash_map, expiry_duration, now, history>>

\* a write through the reference counts as a refresh of the entry
GetMutAssign_restamps ==
    \E k \in Keys, v \in Values :
        /\ Begin("get_mut", <<k>>)
        /\ IF get_mut(k) = None
             THEN UNCHANGED <<hash_map, history>>
             ELSE /\ hash_map' = inserted(hash_map, k, v)
                  /\ history' = rewritten(history, k, v)
        /\ ret' = Ok(get_mut(k))
        /\ pending' = <<v>>
        /\ calls' = <<>>
        /\ checked' = <<now>>
        /\ idx' = 0
        /\ UNCHANGED <<expiry_duration, now, pc>>

\* Cache::get_mut and an assignment through the reference it returns
GetMutAssign ==
    \E k \in Keys, v \in Values :
        /\ Begin("get_mut", <<k>>)
        /\ IF get_mut(k) = None
             THEN UNCHANGED <<hash_map, history>>
             ELSE /\ hash_map' = [hash_map EXCEPT
                                   ![k] = Some([v |-> v, t |-> @[1].t])]
                  /\ history' = rewritten(history, k, v)
        /\ ret' = Ok(get_mut(k))
        /\ pending' = <<v>>
        /\ calls' = <<>>
        /\ checked' = <<now>>
        /\ idx' = 0
        /\ UNCHANGED <<expiry_duration, now, pc>>

\* ---- Entry

EntryOps == {"entry.or_insert", "entry.or_insert_with", "entry.or_try_insert_with"}

\* Cache::entry up to its freshness check, with the method applied to the
\* view: a fresh key goes on to get_mut; a vacant one to the insert of the
\* default (or_insert) or into the producer (or_insert_with,
\* or_try_insert_with)
EntryBegin ==
    \E k \in Keys, name \in EntryOps, d \in Values :
        /\ Begin(name, <<k>>)
        /\ checked' = <<now>>
        /\ pending' = IF name = "entry.or_insert" THEN <<d>> ELSE <<>>
        /\ ret' = NoRet
        /\ IF get(k) # None
             THEN /\ pc' = "get_mut"
                  /\ calls' = <<>>
             ELSE IF name = "entry.or_insert"
                    THEN /\ pc' = "vacant_insert"
                         /\ calls' = <<>>
                    ELSE /\ pc' = "producer"
                         /\ calls' = << <<k>> >>
        /\ idx' = 0
        /\ UNCHANGED <<hash_map, expiry_duration, now, history>>

\* self.get_mut(&key).unwrap() of Cache::entry, then Entry::Occupied(entry)
\* => entry.v in each of the three methods
EntryGetMut ==
    /\ pc = "get_mut"
    /\ IF get_mut(keys[1]) = None
         THEN /\ ret' = Panic
              /\ pc' = "panicked"
         ELSE /\ ret' = Ok(get_mut(keys[1]))
              /\ pc' = "idle"
    /\ UNCHANGED <<hash_map, expiry_duration, now, op, keys, idx, values,
                   missing, pending, calls, produced, pre, checked, vec,
                   history>>

\* default(&k) returns a value (or_insert_with) or Ok(v) (or_try_insert_with)
EntryProducerOk ==
    /\ pc = "producer"
    /\ op \in {"entry.or_insert_with", "entry.or_try_insert_with"}
    /\ \E v \in Values :
         /\ produced' = Ok(<<v>>)
         /\ pending' = <<v>>
    /\ pc' = "vacant_insert"
    /\ UNCHANGED <<hash_map, expiry_duration, now, op, keys, idx, values,
                   missing, calls, ret, pre, checked, vec, history>>

\* the failed refresh drops the expired entry it could not replace
EntryProducerErr_drops ==
    /\ pc = "producer"
    /\ op = "entry.or_try_insert_with"
    /\ produced' = Err
    /\ ret' = Err
    /\ pc' = "idle"
    /\ hash_map' = [hash_map EXCEPT ![keys[1]] = None]
    /\ UNCHANGED <<expiry_duration, now, op, keys, idx, values, missing,
                   pending, calls, pre, checked, vec, history>>

\* default(&k) returns Err(e) => Err(e)
EntryProducerErr ==
    /\ pc = "producer"
    /\ op = "entry.or_try_insert_with"
    /\ produced' = Err
    /\ ret' = Err
    /\ pc' = "idle"
    /\ UNCHANGED <<hash_map, expiry_duration, now, op, keys, idx, values,
                   missing, pending, calls, pre, checked, vec, history>>

\* VacantEntry::insert, first line: self.cache.insert(self.k.clone(), v)
VacantInsert ==
    /\ pc = "vacant_insert"
    /\ hash_map' = inserted(hash_map, keys[1], pending[1])
    /\ history' = recorded(history, keys[1], pending[1])
    /\ pc' = "vacant_get_mut"
    /\ UNCHANGED <<expiry_duration, now, op, keys, idx, values, missing,
                   pending, calls, ret, produced, pre, checked, vec>>

\* VacantEntry::insert, second line: self.cache.get_mut(&self.k).unwrap()
VacantGetMut ==
    /\ pc = "vacant_get_mut"
    /\ IF get_mut(keys[1]) = None
         THEN /\ ret' = Panic
              /\ pc' = "panicked"
         ELSE /\ ret' = Ok(get_mut(keys[1]))
              /\ pc' = "idle"
    /\ UNCHANGED <<hash_map, expiry_duration, now, op, keys, idx, values,
                   missing, pending, calls, produced, pre, checked, vec,
                   history>>

\* an assignment through the &mut V an Entry method returned, as in
\* *cache.entry(k).or_insert(10) += 20: the borrow ends with it, so it
\* comes before any other call
RefAssign ==
    /\ op \in EntryOps
    /\ ret.kind = "ok"
    /\ \E v \in Values :
         /\ Begin("entry.assign", keys)
         /\ hash_map' = [hash_map EXCEPT
                          ![keys[1]] = Some([v |-> v, t |-> @[1].t])]
         /\ history' = rewritten(history, keys[1], v)
         /\ pending' = <<v>>
    /\ ret' = NoRet
    /\ calls' = <<>>
    /\ checked' = <<>>
    /\ UNCHANGED <<expiry_duration, now, pc, idx>>

\* ---- Entries

EntriesOps == {"entries.or_try_insert_with", "entries.or_insert_with"}

\* Cache::entries followed by or_try_insert_with, or by or_insert_with, which
\* calls or_try_insert_with with a producer that cannot fail: the view is
\* built and the method is about to run its partition loop
EntriesBegin ==
    \E ks \in KeySeqs, name \in EntriesOps :
        /\ Begin(name, ks)
        /\ pc' = "partition"
        /\ idx' = 1
        /\ pending' = <<>>
        /\ calls' = <<>>
        /\ checked' = <<>>
        /\ ret' = NoRet
        /\ UNCHANGED <<hash_map, expiry_duration, now, history>>

\* the result vector built back to front
collect_reversed(ks, vals) ==
    [i \in 1..Len(ks) |-> vals[ks[Len(ks) + 1 - i]][1]]

\* the result vector: self.keys.iter().map(|k| values[k]).collect()
collect(ks, vals) == [i \in 1..Len(ks) |-> vals[ks[i]][1]]

\* a cache hit also restamps the entry, as an LRU cache would
Partition_touch ==
    /\ pc = "partition"
    /\ idx <= Len(keys)
    /\ LET k == keys[idx] IN
         /\ IF get(k) # None
              THEN /\ values' = [values EXCEPT ![k] = get(k)]
                   /\ hash_map' = inserted(hash_map, k, get(k)[1])
                   /\ UNCHANGED missing
              ELSE /\ missing' = Append(missing, k)
                   /\ UNCHANGED <<values, hash_map>>
         /\ checked' = Append(checked, now)
         /\ idx' = idx + 1
    /\ UNCHANGED <<expiry_duration, now, pc, op, keys, pending, calls, ret,
                   produced, pre, vec, history>>

\* one iteration of `for k in self.keys`: the key goes to values or to missing
Partition ==
    /\ pc = "partition"
    /\ idx <= Len(keys)
    /\ LET k == keys[idx] IN
         /\ IF get(k) # None
              THEN /\ values' = [values EXCEPT ![k] = get(k)]
                   /\ UNCHANGED missing
              ELSE /\ missing' = Append(missing, k)
                   /\ UNCHANGED values
         /\ checked' = Append(checked, now)
         /\ idx' = idx + 1
    /\ UNCHANGED <<hash_map, expiry_duration, now, pc, op, keys, pending,
                   calls, ret, produced, pre, vec, history>>

\* after the loop: with nothing missing the result is returned at once, else
\* the producer is invoked with the missing keys
PartitionDone ==
    /\ pc = "partition"
    /\ idx > Len(keys)
    /\ IF missing = <<>>
         THEN /\ ret' = Ok(collect(keys, values))
              /\ pc' = "idle"
              /\ UNCHANGED calls
         ELSE /\ calls' = Append(calls, missing)
              /\ pc' = "producer"
              /\ UNCHANGED ret
    /\ UNCHANGED <<hash_map, expiry_duration, now, op, keys, idx, values,
                   missing, pending, produced, pre, checked, vec, history>>

\* the error path evicts the entries of the missing keys before returning
EntriesProducerErr_evicts ==
    /\ pc = "producer"
    /\ op = "entries.or_try_insert_with"
    /\ produced' = Err
    /\ ret' = Err
    /\ pc' = "idle"
    /\ hash_map' = [k \in Keys |->
                     IF \E i \in 1..Len(missing) : missing[i] = k
                       THEN None ELSE hash_map[k]]
    /\ UNCHANGED <<expiry_duration, now, op, keys, idx, values, missing,
                   pending, calls, pre, checked, vec, history>>

\* default(&missing)? with default returning Err: the error is propagated
EntriesProducerErr ==
    /\ pc = "producer"
    /\ op = "entries.or_try_insert_with"
    /\ produced' = Err
    /\ ret' = Err
    /\ pc' = "idle"
    /\ UNCHANGED <<hash_map, expiry_duration, now, op, keys, idx, values,
                   missing, pending, calls, pre, checked, vec, history>>

\* the lengths are compared only after the first pair has been written
EntriesProducerOk_late_assert ==
    /\ pc = "producer"
    /\ op \in EntriesOps
    /\ \E mv \in Vecs(Len(missing) + 1) :
         /\ produced' = Ok(mv)
         /\ pending' = mv
         /\ IF Len(missing) # Len(mv)
              THEN /\ ret' = Panic
                   /\ pc' = "panicked"
                   /\ hash_map' = IF mv = <<>> THEN hash_map
                                  ELSE inserted(hash_map, missing[1], mv[1])
                   /\ UNCHANGED idx
              ELSE /\ pc' = "insert_all"
                   /\ idx' = 1
                   /\ UNCHANGED <<ret, hash_map>>
    /\ UNCHANGED <<expiry_duration, now, op, keys, values, missing, calls,
                   pre, checked, vec, history>>

\* default(&missing) returns a vector, of any length; assert_eq! on the
\* lengths panics before anything is written
EntriesProducerOk ==
    /\ pc = "producer"
    /\ op \in EntriesOps
    /\ \E mv \in Vecs(Len(missing) + 1) :
         /\ produced' = Ok(mv)
         /\ pending' = mv
         /\ IF Len(missing) # Len(mv)
              THEN /\ ret' = Panic
                   /\ pc' = "panicked"
                   /\ UNCHANGED idx
              ELSE /\ pc' = "insert_all"
                   /\ idx' = 1
                   /\ UNCHANGED ret
    /\ UNCHANGED <<hash_map, expiry_duration, now, op, keys, values, missing,
                   calls, pre, checked, vec, history>>

\* the local lookup keeps the first value of a key, the store the last
InsertAll_first_wins ==
    /\ pc = "insert_all"
    /\ idx <= Len(missing)
    /\ LET k == missing[idx]
           v == pending[idx] IN
         /\ hash_map' = inserted(hash_map, k, v)
         /\ history' = recorded(history, k, v)
         /\ values' = IF values[k] = None
                         THEN [values EXCEPT ![k] = Some(v)] ELSE values
    /\ idx' = idx + 1
    /\ UNCHANGED <<expiry_duration, now, pc, op, keys, missing, pending,
                   calls, ret, produced, pre, checked, vec>>

\* the produced value is stored only if the key is still not fresh, which
\* takes one more freshness check per missing key
InsertAll_rechecks ==
    /\ pc = "insert_all"
    /\ idx <= Len(missing)
    /\ LET k == missing[idx]
           v == pending[idx] IN
         /\ IF get(k) = None
              THEN /\ hash_map' = inserted(hash_map, k, v)
                   /\ history' = recorded(history, k, v)
              ELSE UNCHANGED <<hash_map, history>>
         /\ values' = [values EXCEPT ![k] = Some(v)]
    /\ checked' = Append(checked, now)
    /\ idx' = idx + 1
    /\ UNCHANGED <<expiry_duration, now, pc, op, keys, missing, pending,
                   calls, ret, produced, pre, vec>>

\* one iteration of `for (k, v) in missing.iter().zip(missing_values)`
InsertAll ==
    /\ pc = "insert_all"
    /\ idx <= Len(missing)
    /\ LET k == missing[idx]
           v == pending[idx] IN
         /\ hash_map' = inserted(hash_map, k, v)
         /\ history' = recorded(history, k, v)
         /\ values' = [values EXCEPT ![k] = Some(v)]
    /\ idx' = idx + 1
    /\ UNCHANGED <<expiry_duration, now, pc, op, keys, missing, pending,
                   calls, ret, produced, pre, checked, vec>>

\* after the insert loop: the result is collected in the caller's order
InsertAllDone ==
    /\ pc = "insert_all"
    /\ idx > Len(missing)
    /\ ret' = Ok(collect(keys, values))
    /\ pc' = "idle"
    /\ UNCHANGED <<hash_map, expiry_duration, now, op, keys, idx, values,
                   missing, pending, calls, produced, pre, checked, vec,
                   history>>

\* Entries::or_insert: the loop starts with an empty values vector
OrInsertBegin ==
    \E ks \in KeySeqs, d \in Values :
        /\ Begin("entries.or_insert", ks)
        /\ pending' = <<d>>
        /\ pc' = "or_insert"
        /\ idx' = 1
        /\ ret' = NoRet
        /\ calls' = <<>>
        /\ checked' = <<>>
        /\ UNCHANGED <<hash_map, expiry_duration, now, history>>

\* the lookup reads the raw map: an expired entry counts as cached
OrInsertGet_ignores_expiry ==
    /\ pc = "or_insert"
    /\ idx <= Len(keys)
    /\ LET k == keys[idx] IN
         IF hash_map[k] # None
           THEN /\ vec' = Append(vec, hash_map[k][1].v)
                /\ idx' = idx + 1
                /\ UNCHANGED pc
           ELSE /\ pc' = "or_insert_put"
                /\ UNCHANGED <<vec, idx>>
    /\ checked' = Append(checked, now)
    /\ UNCHANGED <<hash_map, expiry_duration, now, op, keys, values, missing,
                   pending, calls, ret, produced, pre, history>>

\* match self.cache.get(&k): Some(v) => values.push(*v), None => the insert
OrInsertGet ==
    /\ pc = "or_insert"
    /\ idx <= Len(keys)
    /\ LET k == keys[idx] IN
         IF get(k) # None
           THEN /\ vec' = Append(vec, get(k)[1])
                /\ idx' = idx + 1
                /\ UNCHANGED pc
           ELSE /\ pc' = "or_insert_put"
                /\ UNCHANGED <<vec, idx>>
    /\ checked' = Append(checked, now)
    /\ UNCHANGED <<hash_map, expiry_duration, now, op, keys, values, missing,
                   pending, calls, ret, produced, pre, history>>

\* None => { self.cache.insert(k, default); values.push(default); }
OrInsertPut ==
    /\ pc = "or_insert_put"
    /\ hash_map' = inserted(hash_map, keys[idx], pending[1])
    /\ history' = recorded(history, keys[idx], pending[1])
    /\ vec' = Append(vec, pending[1])
    /\ idx' = idx + 1
    /\ pc' = "or_insert"
    /\ UNCHANGED <<expiry_duration, now, op, keys, values, missing, pending,
                   calls, ret, produced, pre, checked>>

\* after the loop: values is returned
OrInsertDone ==
    /\ pc = "or_insert"
    /\ idx > Len(keys)
    /\ ret' = Ok(vec)
    /\ pc' = "idle"
    /\ UNCHANGED <<hash_map, expiry_duration, now, op, keys, idx, values,
                   missing, pending, calls, produced, pre, checked, vec,
                   history>>

Next ==
    \/ Tick
    \/ Get
    \/ Index
    \/ Insert
    \/ GetMutAssign
    \/ RefAssign
    \/ OrInsertBegin
    \/ OrInsertGet
    \/ OrInsertPut
    \/ OrInsertDone
    \/ EntryBegin
    \/ EntryGetMut
    \/ EntryProducerOk
    \/ EntryProducerErr
    \/ VacantInsert
    \/ VacantGetMut
    \/ EntriesBegin
    \/ Partition
    \/ PartitionDone
    \/ EntriesProducerErr
    \/ EntriesProducerOk
    \/ InsertAll
    \/ InsertAllDone

Spec == Init /\ [][Next]_vars

\* ---- the claims

\* fresh(k) of the specification, for map m read at clock value c: present,
\* and with an expiry duration not older than it
Fresh(m, k, c) ==
    /\ m[k] # None
    /\ \/ expiry_duration = None
       \/ c - m[k][1].t <= expiry_duration[1]

\* the requested keys found not fresh, each at the clock value of its own
\* check, in the order of the request (first n positions)
RECURSIVE StaleUpTo(_)
StaleUpTo(n) ==
    IF n = 0 THEN <<>>
    ELSE IF Fresh(pre, keys[n], checked[n])
           THEN StaleUpTo(n - 1)
           ELSE Append(StaleUpTo(n - 1), keys[n])

StaleKeys == StaleUpTo(Len(keys))

\* C1: when the producer of Entries::or_try_insert_with returns an error, the
\* call returns that error and the store is as it was when the call started
\* (keys, values and timestamps); no key of the missing list is visible to get.
C1_ErrorLeavesStore ==
    (op = "entries.or_try_insert_with" /\ produced = Err) =>
        /\ pc = "idle"
        /\ ret = Err
        /\ hash_map = pre
        /\ \A i \in 1..Len(calls[1]) : get(calls[1][i]) = None

\* a failed batch whose missing list holds an expired key still in the map
C1_Witness ==
    /\ op = "entries.or_try_insert_with"
    /\ produced = Err
    /\ ret = Err
    /\ Len(calls[1]) = 2
    /\ \E i \in 1..Len(calls[1]) : pre[calls[1][i]] # None

\* C2: when some requested key is absent or expired, the producer of
\* Entries::or_try_insert_with is invoked exactly once, with exactly the
\* requested keys found not fresh, in the order of the request; no key passed
\* to the producer is fresh.
C2_ProducerGetsStaleKeys ==
    /\ (op \in EntriesOps /\ pc = "partition") => calls = <<>>
    /\ (op \in EntriesOps /\ pc # "partition" /\ StaleKeys # <<>>) =>
          /\ calls = <<StaleKeys>>
          /\ pc = "producer" =>
                \A i \in 1..Len(calls[1]) : ~Fresh(hash_map, calls[1][i], now)

\* a batch of a fresh key and a stale one, the stale one given to the producer
C2_Witness ==
    /\ op = "entries.or_try_insert_with"
    /\ pc = "idle"
    /\ Len(keys) = 2
    /\ Len(StaleKeys) = 1
    /\ calls = <<StaleKeys>>
    /\ expiry_duration # None
    /\ pre[StaleKeys[1]] # None
\* the value the producer returned for key k: the one zipped with the last
\* occurrence of k in the list it was given
LastProduced(k) ==
    LET j == CHOOSE j \in 1..Len(calls[1]) :
                 /\ calls[1][j] = k
                 /\ \A h \in (j + 1)..Len(calls[1]) : calls[1][h] # k
    IN produced.val[j]

\* C3: a successful Entries::or_try_insert_with returns one value per
\* requested key, in the order of the request: the cached value where the key
\* was found fresh by the partition, else the value the producer returned for
\* the key.
C3_OutputPerPosition ==
    (op = "entries.or_try_insert_with" /\ pc = "idle" /\ ret.kind = "ok") =>
        /\ Len(ret.val) = Len(keys)
        /\ \A i \in 1..Len(keys) :
              ret.val[i] = IF Fresh(pre, keys[i], checked[i])
                             THEN pre[keys[i]][1].v
                             ELSE LastProduced(keys[i])

\* C4: when every requested key is found fresh, or_try_insert_with and
\* or_insert_with never invoke the producer, return the cached values in the
\* order of the request (duplicates included) and leave the store as it was.
C4_AllFreshNoProducer ==
    (op \in EntriesOps /\ pc # "partition" /\ StaleKeys = <<>>) =>
        /\ pc = "idle"
        /\ calls = <<>>
        /\ produced = NoRet
        /\ ret = Ok([i \in 1..Len(keys) |-> pre[keys[i]][1].v])
        /\ hash_map = pre

\* a finished batch of two fresh keys under an expiry duration, some time
\* after the keys were written
C4_Witness ==
    /\ op \in EntriesOps
    /\ pc = "idle"
    /\ Len(keys) = 2
    /\ StaleKeys = <<>>
    /\ expiry_duration # None
    /\ ret.kind = "ok"
    /\ \E i \in 1..Len(keys) : pre[keys[i]][1].t < checked[i]

\* C5: the list given to the producer holds no key twice.
C5_NoDuplicateAsked ==
    (op \in EntriesOps /\ calls # <<>>) =>
        \A i, j \in 1..Len(calls[1]) : i # j => calls[1][i] # calls[1][j]

\* C6: a producer output whose length differs from that of the missing list
\* makes Entries::or_try_insert_with panic, and nothing is written to the
\* store.
C6_LengthMismatchPanics ==
    (op \in EntriesOps /\ produced.kind = "ok"
        /\ Len(produced.val) # Len(calls[1])) =>
        /\ pc = "panicked"
        /\ ret = Panic
        /\ hash_map = pre

\* a producer that returned one value for two missing keys
C6_Witness ==
    /\ op \in EntriesOps
    /\ produced.kind = "ok"
    /\ Len(calls[1]) = 2
    /\ Len(produced.val) = 1
    /\ pc = "panicked"

\* C7: in the output of a successful Entries::or_try_insert_with two
\* positions of the same key hold the same value, which is the value the
\* store holds for the key after the call.
C7_DuplicatesAgree ==
    (op \in EntriesOps /\ pc = "idle" /\ ret.kind = "ok") =>
        /\ Len(ret.val) = Len(keys)
        /\ \A i, j \in 1..Len(keys) :
              keys[i] = keys[j] => ret.val[i] = ret.val[j]
        /\ \A i \in 1..Len(keys) :
              /\ hash_map[keys[i]] # None
              /\ hash_map[keys[i]][1].v = ret.val[i]

\* a key requested twice for which the producer returned two values
C7_Witness ==
    /\ op \in EntriesOps
    /\ pc = "idle"
    /\ ret.kind = "ok"
    /\ Len(keys) = 2
    /\ keys[1] = keys[2]
    /\ produced.kind = "ok"
    /\ Len(produced.val) = 2
    /\ produced.val[1] # produced.val[2]

\* the step by which Entries::or_try_insert_with returns Ok
EntriesReturnsOk ==
    /\ pc # "idle"
    /\ pc' = "idle"
    /\ op' = "entries.or_try_insert_with"
    /\ ret'.kind = "ok"

\* C8 as claimed: when the call returns Ok(out), get(K[i]) = Some(out[i]) for
\* every i, however long the producer took.
C8_AllFreshAtReturn ==
    [][EntriesReturnsOk =>
         \A i \in 1..Len(keys') : get(keys[i])' = Some(ret'.val[i])]_vars

\* C8 as amended: when the call returns Ok(out), the store holds out[i] under
\* K[i] for every i, and get(K[i]) = Some(out[i]) for every K[i] whose entry is
\* then no older than the expiry duration (always, with keep_last).
C8_HeldAtReturn ==
    [][EntriesReturnsOk =>
         \A i \in 1..Len(keys') :
            /\ hash_map'[keys[i]] # None
            /\ hash_map'[keys[i]][1].v = ret'.val[i]
            /\ Fresh(hash_map', keys[i], now') =>
                  get(keys[i])' = Some(ret'.val[i])]_vars

\* a returned batch of a cached key and a produced key, both still fresh
C8_Witness ==
    /\ op = "entries.or_try_insert_with"
    /\ pc = "idle"
    /\ ret.kind = "ok"
    /\ expiry_duration # None
    /\ Len(keys) = 2
    /\ Len(calls) = 1
    /\ Len(calls[1]) = 1
    /\ \A i \in 1..Len(keys) : get(keys[i]) = Some(ret.val[i])
    /\ \E i \in 1..Len(keys) : hash_map[keys[i]][1].t < now

\* C9: when k is found fresh by entry(k), or_insert, or_insert_with and
\* or_try_insert_with return the existing value, the producer is not invoked
\* and the store is unchanged.
C9_OccupiedShortCircuit ==
    (op \in EntryOps /\ Fresh(pre, keys[1], checked[1])) =>
        /\ pc \in {"get_mut", "idle"}
        /\ calls = <<>>
        /\ hash_map = pre
        /\ pc = "idle" => ret = Ok(Some(pre[keys[1]][1].v))

\* C10: when k is found absent or expired by entry(k), or_insert_with and a
\* succeeding or_try_insert_with invoke the producer once with k, store its
\* value under k with a new timestamp, and get(k) right after the return is
\* that value; or_insert(v) does the same with v and no producer.
C10_VacantPopulates ==
    [][(op' \in EntryOps /\ ~Fresh(pre', keys'[1], checked'[1])
           /\ produced' # Err) =>
         /\ pc' # "panicked"
         /\ calls' = IF op' = "entry.or_insert" THEN <<>> ELSE << keys' >>
         /\ (pc # "idle" /\ pc' = "idle") =>
               /\ ret' = Ok(pending')
               /\ hash_map'[keys'[1]] # None
               /\ hash_map'[keys'[1]][1].v = pending'[1]
               /\ hash_map'[keys'[1]][1].t >= checked'[1]
               /\ get(keys[1])' = Some(pending'[1])]_vars

\* C11: when the producer given to entry(k).or_try_insert_with fails for an
\* absent or expired key, the call has returned the error, the producer was
\* called exactly once, and as long as no other call is made the store is
\* the one of the call's start (an expired entry of k keeps its value and
\* its timestamp) and get(k) is None
C11_EntryErrorLeavesStore ==
    (op = "entry.or_try_insert_with" /\ produced = Err) =>
        /\ pc = "idle"
        /\ ret = Err
        /\ calls = << <<keys[1]>> >>
        /\ ~Fresh(pre, keys[1], checked[1])
        /\ hash_map = pre
        /\ get(keys[1]) = None

C11_Witness ==
    /\ op = "entry.or_try_insert_with"
    /\ produced = Err
    /\ ret = Err
    /\ pre[keys[1]] # None
    /\ hash_map[keys[1]] = pre[keys[1]]

\* what the specification lets a lookup of k see at clock value c: the value
\* of the most recent insert of k, with the later writes through a
\* reference, unless more than the expiry duration has passed since
Visible(k, c) ==
    IF history[k] = None THEN None
    ELSE IF expiry_duration = None \/ c - history[k][1].t <= expiry_duration[1]
           THEN Some(history[k][1].v)
           ELSE None

\* C12: at every moment get(k) is Some(v) exactly when k has been inserted
\* and either the cache keeps the last value or no more than the expiry
\* duration has passed since the most recent insert of k, v being the value
\* of that insert as later modified through a reference; a call of get
\* returned just that for the clock value it read
C12_GetSeesLastInsert ==
    /\ \A k \in Keys : get(k) = Visible(k, now)
    /\ op = "get" => ret = Ok(Visible(keys[1], checked[1]))
    /\ expiry_duration = None =>
          \A k \in Keys : history[k] # None => get(k) # None

C12_Witness ==
    /\ op = "get"
    /\ ret = Ok(None)
    /\ history[keys[1]] # None
    /\ \E k \in Keys : get(k) # None /\ history[k][1].t < now

\* C13: a call insert(k, v) returns None exactly when k was never inserted
\* before, and otherwise the value stored under k at that moment (the last
\* inserted one, with later writes through a reference), expired or not;
\* and no step ever takes a key out of the store
C13_InsertReturnsPrevious ==
    [][/\ (op' = "insert" /\ now' = now) =>
              ret' = Ok(IF history[keys'[1]] = None THEN None
                        ELSE Some(history[keys'[1]][1].v))
       /\ \A k \in Keys : hash_map[k] # None => hash_map'[k] # None]_vars

C13_Witness ==
    /\ op = "insert"
    /\ pc = "idle"
    /\ pre[keys[1]] # None
    /\ ~Fresh(pre, keys[1], hash_map[keys[1]][1].t)
    /\ ret = Ok(Some(pre[keys[1]][1].v))
    /\ ret.val # Some(pending[1])

\* the timestamp stored with k in map m
Stamp(m, k) == IF m[k] = None THEN None ELSE Some(m[k][1].t)

\* this step inserts a value for k: Cache::insert, or the population of a
\* vacant slot by an Entry or by one of the two Entries loops
InsertStep(k) ==
    \/ op' = "insert" /\ now' = now /\ keys'[1] = k
    \/ pc = "vacant_insert" /\ pc' = "vacant_get_mut" /\ keys[1] = k
    \/ pc = "insert_all" /\ idx' = idx + 1 /\ missing[idx] = k
    \/ pc = "or_insert_put" /\ pc' = "or_insert" /\ keys[idx] = k

\* C14: the timestamp of a key changes only in a step that inserts a value
\* for that key, and then to the clock value of that step; a call of get, of
\* index, or a write through the reference of get_mut or of an entry leaves
\* every timestamp as it was
C14_StampOnlyByInsert ==
    [][/\ \A k \in Keys :
             Stamp(hash_map', k) # Stamp(hash_map, k) =>
                 InsertStep(k) /\ Stamp(hash_map', k) = Some(now)
       /\ (op' \in {"get", "index", "get_mut", "entry.assign"} /\ now' = now) =>
             \A k \in Keys : Stamp(hash_map', k) = Stamp(hash_map, k)]_vars

C14_Witness ==
    /\ op = "get_mut"
    /\ pc = "idle"
    /\ hash_map # pre
    /\ Stamp(hash_map, keys[1]) = Stamp(pre, keys[1])
    /\ hash_map[keys[1]][1].t < checked[1]
    /\ hash_map[keys[1]][1].v = pending[1]

\* C15: within one entries call no key is both taken as fresh (its cached
\* value put in values) and put in the missing list, however the clock
\* advances between the checks of the partition loop
C15_ClassifiedOnce ==
    (op \in EntriesOps /\ pc \in {"partition", "producer"}) =>
        \A i \in 1..Len(missing) : values[missing[i]] = None

\* the positions of key k in the request
Positions(k) == {i \in 1..Len(keys) : keys[i] = k}

\* C16: Entries::or_insert(default) returns one value per requested
\* position, in the order of the request: the cached value where the key was
\* fresh at the check of that position, default elsewhere. Afterwards every
\* requested key is in the store; a key fresh at all its checks, like a key
\* not requested, keeps its value and its timestamp; a key found absent or
\* expired holds default, stamped no earlier than that check
C16_OrInsertDefault ==
    (op = "entries.or_insert" /\ pc = "idle") =>
        /\ ret.kind = "ok"
        /\ Len(ret.val) = Len(keys)
        /\ Len(checked) = Len(keys)
        /\ \A i \in 1..Len(keys) :
              ret.val[i] = IF Fresh(pre, keys[i], checked[i])
                             THEN pre[keys[i]][1].v ELSE pending[1]
        /\ \A i \in 1..Len(keys) : hash_map[keys[i]] # None
        /\ \A k \in Keys :
              IF \A i \in Positions(k) : Fresh(pre, k, checked[i])
                THEN hash_map[k] = pre[k]
                ELSE /\ hash_map[k][1].v = pending[1]
                     /\ \E i \in Positions(k) :
                          /\ ~Fresh(pre, k, checked[i])
                          /\ hash_map[k][1].t >= checked[i]

C16_Witness ==
    /\ op = "entries.or_insert"
    /\ pc = "idle"
    /\ Len(keys) = 2
    /\ keys[1] # keys[2]
    /\ Fresh(pre, keys[1], checked[1])
    /\ pre[keys[1]][1].v # pending[1]
    /\ pre[keys[2]] # None
    /\ ~Fresh(pre, keys[2], checked[2])
    /\ pre[keys[2]][1].v # pending[1]

\* C17: a call of Entries::or_try_insert_with goes through three phases in
\* order. A freshness check is made only before the producer is invoked and
\* before any write; the store is written only after the producer returned
\* a vector of the right length; the output is built in a step that writes
\* nothing, after the last write; and from the invocation of the producer
\* to its return the store is not written and no freshness is checked
C17_ThreePhases ==
    [][(op \in EntriesOps /\ op' = op /\ pc # "idle") =>
          /\ checked' # checked =>
                calls = <<>> /\ produced = NoRet /\ hash_map = pre
          /\ hash_map' # hash_map =>
                /\ produced.kind = "ok"
                /\ Len(produced.val) = Len(missing)
                /\ Len(checked) = Len(keys)
                /\ ret = NoRet
          /\ (ret' # ret /\ ret'.kind = "ok") =>
                /\ hash_map' = hash_map
                /\ pc' = "idle"
                /\ calls # <<>> => (pc = "insert_all" /\ idx > Len(missing))
          /\ pc = "producer" => (hash_map' = hash_map /\ checked' = checked)
      ]_vars

C17_Witness ==
    /\ op = "entries.or_try_insert_with"
    /\ pc = "idle"
    /\ ret.kind = "ok"
    /\ Len(checked) = 2
    /\ Len(missing) = 2
    /\ missing[1] # missing[2]
    /\ hash_map[missing[1]][1].t > checked[2]
    /\ hash_map[missing[2]][1].t > hash_map[missing[1]][1].t

\* C18: when Entries::or_try_insert_with has succeeded after calling the
\* producer, each key of the missing list holds the value produced for it
\* with a timestamp taken after the partition (so newer than the one it
\* replaces), and every other key, requested or not, has the value and the
\* timestamp it had when the call started
C18_WritesExactlyMissing ==
    (op \in EntriesOps /\ pc = "idle" /\ ret.kind = "ok" /\ calls # <<>>) =>
        /\ calls = <<missing>>
        /\ \A k \in Keys :
              IF \E i \in 1..Len(missing) : missing[i] = k
                THEN /\ hash_map[k] # None
                     /\ hash_map[k][1].v = LastProduced(k)
                     /\ hash_map[k][1].t >= checked[Len(checked)]
                     /\ pre[k] # None => hash_map[k][1].t > pre[k][1].t
                ELSE hash_map[k] = pre[k]

C18_Witness ==
    /\ op = "entries.or_try_insert_with"
    /\ pc = "idle"
    /\ ret.kind = "ok"
    /\ Len(keys) = 2
    /\ Len(missing) = 1
    /\ keys[1] # keys[2]
    /\ pre[keys[1]] # None
    /\ pre[keys[2]] # None
    /\ hash_map[missing[1]] # pre[missing[1]]
    /\ hash_map[missing[1]][1].t > checked[2]

\* C19: Cache::entry(k) never fails fatally when its freshness check sees k
\* fresh: the get_mut that follows the check finds the value, however the
\* clock advances between the two
C19_EntryNeverPanics ==
    (op \in EntryOps /\ Fresh(pre, keys[1], checked[1])) => pc # "panicked"

\* C20: on a key its freshness check saw absent or expired, or_insert,
\* or_insert_with and a succeeding or_try_insert_with return a reference to
\* the value just inserted and never fail fatally, for every expiry
\* duration and however the clock advances between the insert and the
\* re-read of VacantEntry::insert
C20_VacantInsertNeverPanics ==
    (op \in EntryOps /\ ~Fresh(pre, keys[1], checked[1]) /\ produced # Err) =>
        /\ pc # "panicked"
        /\ pc = "idle" => (ret = Ok(Some(pending[1])) /\ hash_map # pre)
====
